---- MODULE Spec2Model ----
(***************************************************************************)
(* Quiplash backend: the translation client, the content-safety client    *)
(* (shared_code/helpers.py) and the player endpoints (function_app.py,     *)
(* quiplash/function_app.py) as state machines.                            *)
(*                                                                         *)
(* Six families of variables, each driven by its own specification:        *)
(*   SpecDetect     one call of _translate_detect                          *)
(*   SpecTranslate  one run of _translate_to_all, request by request       *)
(*                  (SpecTranslateFair: the same, every step ending)       *)
(*   SpecSafety     one call of _content_safety_average_english            *)
(*   Spec           concurrent player_register / player_update handlers    *)
(*                  over the player container                              *)
(*   SpecPrompt     concurrent prompt_create / prompt_moderate /           *)
(*                  prompt_delete handlers over the prompt container       *)
(*   SpecWelcome    the change-feed welcome job, item by item              *)
(* A specification leaves the other families at their idle value.          *)
(*                                                                         *)
(* Service responses are modelled by their shape: the transport outcome,   *)
(* whether the body parses, its top-level shape, and each field being      *)
(* absent, null or a scalar.                                               *)
(***************************************************************************)
EXTENDS Integers, Sequences, FiniteSets, TLC

VARIABLES
    \* ---- _translate_detect (one call)
    dpc,        \* "idle" | "call" | "done"
    dText,      \* the text given
    dResp,      \* the service's response to the call
    dOut,       \* the returned pair <<language, score>>
    \* ---- _translate_to_all (one run)
    tpc,        \* "idle" | "detect" | "batch" | "fallback" | "done" | "raised"
    text,       \* the input text
    detLang,    \* the language _translate_detect returned
    lang,       \* local lang
    targets,    \* local targets
    texts,      \* local texts, the result
    batchResp,  \* the response to the batched request
    missing,    \* local missing
    mi,         \* position of the for-loop over missing
    calls,      \* the requests issued so far, in order, each with its outcome
    \* ---- _content_safety_average_english (one call)
    spc,        \* "idle" | "call" | "wait" | "done"
    sTexts,     \* the texts given
    sReqs,      \* the "text" of every request sent to the moderation service
    sResp,      \* the service's response
    sOut,       \* how the call ended: a returned value or a raised exception
    \* ---- the player container and the handlers running against it
    variant,    \* which function_app.py runs: "legacy" | "quiplash"
    players,    \* the documents of the player container
    reqs,       \* per invocation slot: the handler's arguments, position, locals
    issued,     \* number of requests started so far
    \* ---- the prompt container and the handlers running against it
    prompts,    \* the documents of the prompt container
    preqs,      \* per invocation slot: the handler's arguments, position, locals
    pissued,    \* number of prompt requests started so far
    uuids,      \* number of ids uuid.uuid4() has handed out
    \* ---- the welcome job (change-feed reactor) and the prompts it wrote
    wpc,        \* "idle" | "check" | "translate" | "persist"
    wUser,      \* the username of the player document being processed
    wTexts,     \* the texts the translation fan-out returned
    wprompts,   \* the welcome prompts in the prompt container
    delivered,  \* number of player documents delivered so far
    handled     \* per username: deliveries processed to the end without error

dvars == <<dpc, dText, dResp, dOut>>
tvars == <<tpc, text, detLang, lang, targets, texts, batchResp, missing, mi, calls>>
svars == <<spc, sTexts, sReqs, sResp, sOut>>
pvars == <<variant, players, reqs, issued>>
qvars == <<prompts, preqs, pissued, uuids>>
wvars == <<wpc, wUser, wTexts, wprompts, delivered, handled>>
vars == <<dvars, tvars, svars, pvars, qvars, wvars>>

\* ------------------------------------------------------------------ bounds

\* player documents the change feed delivers, redeliveries included
MaxDeliveries == 2

\* longest list of entries in an arbitrary batch response
MaxBatch == 2

\* longest "categoriesAnalysis" list in an arbitrary moderation response
MaxItems == 2

\* longest list of texts given to the content-safety helper
MaxTexts == 2

\* concurrent invocations of the HTTP handlers
NumSlots == 2

\* requests started in one behaviour
MaxRequests == 3

\* ------------------------------------------------------------ configuration

\* function_app.SUPPORTED_CODES: English, Welsh, Spanish, Tamil,
\* Chinese-Simplified, Arabic
SUPPORTED_CODES == <<"en", "cy", "es", "ta", "zh-Hans", "ar">>

Range(s) == {s[i] : i \in 1..Len(s)}

SeqsUpTo(S, n) == UNION {[1..k -> S] : k \in 0..n}

\* a language the detector may report that is not configured
OutsideCode == "fr"
AllCodes == Range(SUPPORTED_CODES) \cup {OutsideCode}

\* input texts
Texts == {"What is your funniest memory", "Cual es tu recuerdo mas gracioso"}

\* what the translation service returns for `txt` translated into `to`
Tr(txt, to) == txt \o " [" \o to \o "]"

\* markers of a JSON field's shape
Absent == "<absent>"
Null == "<null>"

\* --------------------------------------------------------- _translate_detect

\* a score field: a number (in hundredths), a numeric string, a string that is
\* no number, null, or no field
ScoreFields ==
    {<<"num", v>> : v \in {0, 15, 20, 90}} \cup {<<"numstr", 90>>, <<"str", 0>>, <<Null, 0>>, <<Absent, 0>>}

LanguageFields == AllCodes \cup {"", Null, Absent}

DetectResponses ==
    {[kind |-> k, det |-> Absent, language |-> Absent, score |-> <<Absent, 0>>] :
        k \in {"timeout", "http_error", "bad_json", "empty_list"}}
    \cup {[kind |-> "ok", det |-> d, language |-> Absent, score |-> <<Absent, 0>>] :
        d \in {Absent, Null}}
    \cup {[kind |-> "ok", det |-> "object", language |-> l, score |-> s] :
        l \in LanguageFields, s \in ScoreFields}

\* float(x) raises on a string that is no number and on None
FloatRaises(s) == s[1] \in {"str", Null}

\* float(det.get("score", 0.0)), in hundredths
Float(s) == IF s[1] = Absent THEN 0 ELSE s[2]

\* det.get("language", "")
GetLanguage(r) ==
    IF r.det # "object" \/ r.language = Absent THEN "" ELSE r.language

\* what stands for an exception leaving a function
RaisedMark == "<raised>"

translate_detect_floatoutside(r) ==
    IF r.kind # "ok" THEN <<"", 0>>
    ELSE IF r.det # "object" THEN <<"", 0>>
    ELSE IF FloatRaises(r.score) THEN <<RaisedMark, 0>>
    ELSE <<GetLanguage(r), Float(r.score)>>

\* lines 77-85: the pair _translate_detect returns for response r; every
\* exception of the request, of the status check, of the parse and of float()
\* is caught
translate_detect(r) ==
    IF r.kind # "ok" THEN <<"", 0>>
    ELSE IF r.det # "object" THEN <<"", 0>>
    ELSE IF FloatRaises(r.score) THEN <<"", 0>>
    ELSE <<GetLanguage(r), Float(r.score)>>

DetectIdle == dpc = "idle" /\ dText = "" /\ dResp = [kind |-> "none"] /\ dOut = <<"", 0>>

DetectInit ==
    /\ dpc = "call"
    /\ dText \in Texts \cup {""}
    /\ dResp = [kind |-> "none"]
    /\ dOut = <<"", 0>>

\* the call: the request is answered by r and the function returns
Detect ==
    /\ dpc = "call"
    /\ \E r \in DetectResponses :
        /\ dResp' = r
        /\ dOut' = translate_detect(r)
    /\ dpc' = "done"
    /\ UNCHANGED dText

\* --------------------------------------------------------- _translate_to_all

\* `if not lang: lang = "en"` (None and "" are both falsy)
SourceLang(l) == IF l \in {"", Null} THEN "en" ELSE l

Targets_all(l) == SUPPORTED_CODES

\* line 95: [code for code in SUPPORTED_CODES if code != lang]
Targets(l) == SelectSeq(SUPPORTED_CODES, LAMBDA c : c # l)

\* the batched response that returns exactly what was asked
Asked(tg) == tg

DropAt(s, i) == [j \in 1..(Len(s) - 1) |-> IF j < i THEN s[j] ELSE s[j + 1]]

\* an entry of "translations": its "to" code, or an item that is no object
BadEntry == "<not-an-object>"
EntryKinds == AllCodes \cup {Absent, BadEntry}

BatchResponses(tg) ==
    {[kind |-> k, entries |-> <<>>] : k \in {"timeout", "http_error", "bad_json"}}
    \cup {[kind |-> "ok", entries |-> e] : e \in SeqsUpTo(EntryKinds, MaxBatch)}
    \cup {[kind |-> "ok", entries |-> Asked(tg)]}
    \cup {[kind |-> "ok", entries |-> DropAt(tg, i)] : i \in 1..Len(tg)}

\* the entries the loop of lines 104-108 reaches before an item raises
RECURSIVE Reached(_)
Reached(e) ==
    IF e = <<>> \/ Head(e) = BadEntry THEN <<>>
    ELSE <<Head(e)>> \o Reached(Tail(e))

BatchRaises(r) == r.kind # "ok" \/ \E i \in 1..Len(r.entries) : r.entries[i] = BadEntry

\* lines 101-110: texts after the batched request was answered by r
BatchAppend(tx, tg, r, txt) ==
    IF r.kind # "ok" THEN tx
    ELSE LET kept == SelectSeq(Reached(r.entries), LAMBDA c : c \in Range(tg))
         IN  tx \o [i \in 1..Len(kept) |-> [language |-> kept[i], text |-> Tr(txt, kept[i])]]

\* line 112
Have(tx) == {tx[i].language : i \in 1..Len(tx)}

Missing_all(tx) == SUPPORTED_CODES

\* line 113
Missing(tx) == SelectSeq(SUPPORTED_CODES, LAMBDA c : c \notin Have(tx))

SingleResponses == {"timeout", "not_ok", "bad_json", "ok"}

FallbackOutcome_parseoutside(r) ==
    IF r = "ok" THEN "append" ELSE IF r = "bad_json" THEN "raise" ELSE "skip"

\* lines 115-122: what one iteration does when the individual request is
\* answered by r: a timeout and an unusable body are caught, a status that is
\* not ok is skipped
FallbackOutcome(r) == IF r = "ok" THEN "append" ELSE "skip"

FallbackAppend_front(tx, m, r, txt) ==
    IF FallbackOutcome(r) = "append"
    THEN <<[language |-> m, text |-> Tr(txt, m)]>> \o tx
    ELSE tx

\* line 120
FallbackAppend(tx, m, r, txt) ==
    IF FallbackOutcome(r) = "append"
    THEN Append(tx, [language |-> m, text |-> Tr(txt, m)])
    ELSE tx

Call(kind, to, outcome) == [kind |-> kind, to |-> to, outcome |-> outcome]

TranslateIdle ==
    /\ tpc = "idle" /\ text = "" /\ detLang = "" /\ lang = "" /\ targets = <<>> /\ texts = <<>>
    /\ batchResp = [kind |-> "none", entries |-> <<>>]
    /\ missing = <<>> /\ mi = 0 /\ calls = <<>>

TranslateInit ==
    /\ tpc = "detect"
    /\ text \in Texts
    /\ detLang = "" /\ lang = "" /\ targets = <<>> /\ texts = <<>>
    /\ batchResp = [kind |-> "none", entries |-> <<>>]
    /\ missing = <<>> /\ mi = 0 /\ calls = <<>>

\* lines 91-96
TTA_Detect ==
    /\ tpc = "detect"
    /\ \E r \in DetectResponses :
        LET l == SourceLang(translate_detect(r)[1]) IN
        /\ detLang' = translate_detect(r)[1]
        /\ lang' = l
        /\ targets' = Targets(l)
        /\ texts' = <<[language |-> l, text |-> text]>>
        /\ calls' = Append(calls, Call("detect", <<"en">>,
                                       IF r.kind = "ok" THEN "ok" ELSE "fail"))
    /\ tpc' = "batch"
    /\ UNCHANGED <<text, batchResp, missing, mi>>

\* lines 98-113
TTA_Batch ==
    /\ tpc = "batch"
    /\ IF targets # <<>>
       THEN \E r \in BatchResponses(targets) :
            /\ batchResp' = r
            /\ texts' = BatchAppend(texts, targets, r, text)
            /\ calls' = Append(calls, Call("batch", targets,
                            IF r.kind # "ok" THEN "fail"
                            ELSE IF BatchRaises(r) THEN "parse_error" ELSE "ok"))
       ELSE UNCHANGED <<batchResp, texts, calls>>
    /\ missing' = Missing(texts')
    /\ mi' = 1
    /\ tpc' = "fallback"
    /\ UNCHANGED <<text, detLang, lang, targets>>

\* lines 114-122, one iteration
TTA_Fallback ==
    /\ tpc = "fallback"
    /\ mi <= Len(missing)
    /\ \E r \in SingleResponses :
        /\ texts' = FallbackAppend(texts, missing[mi], r, text)
        /\ calls' = Append(calls, Call("single", <<missing[mi]>>,
                                       IF r = "ok" THEN "ok" ELSE "fail"))
        /\ tpc' = IF FallbackOutcome(r) = "raise" THEN "raised" ELSE tpc
    /\ mi' = mi + 1
    /\ UNCHANGED <<text, detLang, lang, targets, batchResp, missing>>

\* line 123
TTA_Return ==
    /\ tpc = "fallback"
    /\ mi > Len(missing)
    /\ tpc' = "done"
    /\ UNCHANGED <<text, detLang, lang, targets, texts, batchResp, missing, mi, calls>>

\* ------------------------------------------- _content_safety_average_english

CATEGORIES == <<"Hate", "SelfHarm", "Sexual", "Violence">>

\* a float as the reduced fraction <<numerator, denominator>>
RECURSIVE GCD(_, _)
GCD(a, b) == IF b = 0 THEN a ELSE GCD(b, a % b)

Frac(n, d) == IF n = 0 THEN <<0, 1>> ELSE <<n \div GCD(n, d), d \div GCD(n, d)>>

RECURSIVE Sum(_)
Sum(s) == IF s = <<>> THEN 0 ELSE Head(s) + Sum(Tail(s))

TextEntries == {[language |-> l, text |-> t] : l \in {"en", "cy"}, t \in Texts}

\* an item of "categoriesAnalysis"; category BadEntry stands for an item that
\* is no object
SeverityFields == {<<"num", 1>>, <<"num", 3>>, <<Absent, 0>>}
Items ==
    {[category |-> c, severity |-> v] : c \in Range(CATEGORIES) \cup {"Other"}, v \in SeverityFields}
    \cup {[category |-> BadEntry, severity |-> <<Absent, 0>>]}

\* the four categories, each reported once, in order
FullAnalyses ==
    {[i \in 1..4 |-> [category |-> CATEGORIES[i], severity |-> <<"num", f[i]>>]] :
        f \in [1..4 -> {0, 1, 3}]}

SafetyResponses ==
    {[kind |-> k, body |-> Absent, analysis |-> Absent, items |-> <<>>] :
        k \in {"timeout", "http_error", "bad_json"}}
    \cup {[kind |-> "ok", body |-> b, analysis |-> Absent, items |-> <<>>] :
        b \in {Null, "list"}}
    \cup {[kind |-> "ok", body |-> "object", analysis |-> a, items |-> <<>>] :
        a \in {Absent, Null}}
    \cup {[kind |-> "ok", body |-> "object", analysis |-> "list", items |-> s] :
        s \in SeqsUpTo(Items, MaxItems) \cup FullAnalyses}

\* line 129: next((t["text"] for t in texts if t["language"] == "en"), "")
RECURSIVE EnglishText(_)
EnglishText(tx) ==
    IF tx = <<>> THEN ""
    ELSE IF Head(tx).language = "en" THEN Head(tx).text
    ELSE EnglishText(Tail(tx))

\* lines 155-158 for one category: the severity found, none, or an exception
RECURSIVE Scan(_, _)
Scan(cat, items) ==
    IF items = <<>> THEN [r |-> "none", v |-> 0]
    ELSE IF Head(items).category = BadEntry THEN [r |-> "raise", v |-> 0]
    ELSE IF Head(items).category = cat
         THEN IF FloatRaises(Head(items).severity) THEN [r |-> "raise", v |-> 0]
              ELSE [r |-> "found", v |-> Float(Head(items).severity)]
    ELSE Scan(cat, Tail(items))

\* lines 153-158: the list severities
Severities(items) ==
    LET found == SelectSeq(CATEGORIES, LAMBDA c : Scan(c, items).r = "found")
    IN  [i \in 1..Len(found) |-> Scan(found[i], items).v]

Average_bycount(sev) == IF sev = <<>> THEN <<0, 1>> ELSE Frac(Sum(sev), Len(sev))

\* line 159: sum(severities) / 4.0 if severities else 0.0
Average(sev) == IF sev = <<>> THEN <<0, 1>> ELSE Frac(Sum(sev), 4)

Returned(v) == [kind |-> "return", val |-> v]
Raised == [kind |-> "raise", val |-> <<0, 1>>]

\* lines 145-159: how the call ends when the service answers r
content_safety_average_english(r) ==
    IF r.kind # "ok" THEN Returned(<<0, 1>>)
    ELSE IF r.body # "object" THEN Raised
    ELSE IF r.analysis = Null THEN Raised
    ELSE IF \E c \in Range(CATEGORIES) : Scan(c, r.items).r = "raise" THEN Raised
    ELSE Returned(Average(Severities(r.items)))

NoSafetyResp == [kind |-> "none", body |-> Absent, analysis |-> Absent, items |-> <<>>]

SafetyIdle ==
    /\ spc = "idle" /\ sTexts = <<>> /\ sReqs = <<>>
    /\ sResp = NoSafetyResp /\ sOut = Returned(<<0, 1>>)

SafetyInit ==
    /\ spc = "call"
    /\ sTexts \in SeqsUpTo(TextEntries, MaxTexts)
    /\ sReqs = <<>>
    /\ sResp = NoSafetyResp
    /\ sOut = Returned(<<0, 1>>)

\* lines 129-146: the request is built and sent
CS_Request ==
    /\ spc = "call"
    /\ sReqs' = Append(sReqs, EnglishText(sTexts))
    /\ spc' = "wait"
    /\ UNCHANGED <<sTexts, sResp, sOut>>

\* lines 146-159: the service answers and the function ends
CS_Response ==
    /\ spc = "wait"
    /\ \E r \in SafetyResponses :
        /\ sResp' = r
        /\ sOut' = content_safety_average_english(r)
    /\ spc' = "done"
    /\ UNCHANGED <<sTexts, sReqs>>

\* ------------------------------------------------------- the player container

Slots == 1..NumSlots

\* request fields; Null stands for a field the body does not carry
Usernames == {Null, "bob", "alice", "bobby", "averylongusername"}
Passwords == {Null, "short", "password1", "averylongpassword"}
Scores == {<<"num", 1>>, <<"num", 2>>, <<Null, 0>>}

\* the register bodies sent: every username with a good password, every
\* password with a good username, and one body with both out of range
RegisterBodies ==
    {<<u, "password1">> : u \in Usernames}
    \cup {<<"alice", p>> : p \in Passwords}
    \cup {<<"bob", "short">>}

\* the update bodies sent: username, score and, in one of them, a number of
\* games to add (a field player_update never reads)
UpdateBodies ==
    {<<u, <<"num", 1>>, <<Null, 0>> >> : u \in {Null, "alice", "bobby"}}
    \cup {<<"alice", sc, <<Null, 0>> >> : sc \in Scores}
    \cup {<<"alice", <<"num", 2>>, <<"num", 2>> >>}

NoDoc == [id |-> 0, username |-> "", password |-> "", games_played |-> 0,
          total_score |-> 0, version |-> 0]

NoResp == [result |-> FALSE, msg |-> "", status |-> 0]

Response(result, msg, status) == [result |-> result, msg |-> msg, status |-> status]

\* an unhandled exception: the Functions host answers 500
Unhandled == Response(FALSE, "unhandled exception", 500)

IdleReq == [op |-> "none", pc |-> "idle", username |-> "", password |-> "",
            score |-> <<Null, 0>>, games |-> <<Null, 0>>, player |-> NoDoc,
            resp |-> NoResp]

\* SELECT * FROM c WHERE c.username = @u
query_items(ps, u) == {d \in ps : d.username = u}

\* create_item: the container holds one more document
create_item(ps, d) == ps \cup {d}

\* replace_item(id, body): the stored document with that id becomes body; the
\* store stamps a new version (_etag), which the handlers never compare
replace_item(ps, id, body) ==
    {IF d.id = id THEN [body EXCEPT !.version = d.version + 1] ELSE d : d \in ps}

Stored(ps, id) == CHOOSE d \in ps : d.id = id

\* uuid.uuid4(): an id no stored document has
NewId(ps) == Cardinality(ps) + 1

\* function_app.py 77 / quiplash/function_app.py 383
UsernameInvalid(u) == u = Null \/ Len(u) < 5 \/ Len(u) > 12

\* function_app.py 80 / quiplash/function_app.py 393
PasswordInvalid(p) == p = Null \/ Len(p) < 8 \/ Len(p) > 12

\* the document player_register builds
NewPlayer(ps, u, p) ==
    [id |-> NewId(ps), username |-> u, password |-> p, games_played |-> 0,
     total_score |-> 0, version |-> 1]

\* player["games_played"] += 1; player["total_score"] += score
Incremented(p, score) ==
    [p EXCEPT !.games_played = @ + 1, !.total_score = @ + score[2]]

ReplaceBody_fresh(stored, player, score) == Incremented(stored, score)

\* the body player_update hands to replace_item: the document as it was read by
\* the query, incremented; the stored document is not read again
ReplaceBody(stored, player, score) == Incremented(player, score)

StoreIdle ==
    /\ variant = "none" /\ players = {} /\ reqs = [s \in Slots |-> IdleReq] /\ issued = 0

StoreInit ==
    /\ variant \in {"legacy", "quiplash"}
    /\ players = {}
    /\ reqs = [s \in Slots |-> IdleReq]
    /\ issued = 0

\* a request arrives and an invocation starts
BeginRegister(s) ==
    /\ reqs[s].pc \in {"idle", "done"}
    /\ issued < MaxRequests
    /\ \E b \in RegisterBodies :
        reqs' = [reqs EXCEPT ![s] =
                    [IdleReq EXCEPT !.op = "register", !.pc = "start",
                                    !.username = b[1], !.password = b[2]]]
    /\ issued' = issued + 1
    /\ UNCHANGED <<variant, players>>

BeginUpdate(s) ==
    /\ reqs[s].pc \in {"idle", "done"}
    /\ issued < MaxRequests
    /\ \E b \in UpdateBodies :
        reqs' = [reqs EXCEPT ![s] =
                    [IdleReq EXCEPT !.op = "update", !.pc = "start",
                                    !.username = b[1], !.score = b[2],
                                    !.games = b[3]]]
    /\ issued' = issued + 1
    /\ UNCHANGED <<variant, players>>

Respond(s, r) == [reqs EXCEPT ![s].pc = "done", ![s].resp = r]

\* player_register up to the query: function_app.py 73-90,
\* quiplash/function_app.py 379-418
Register_Query(s) ==
    LET r == reqs[s] IN
    /\ r.op = "register" /\ r.pc = "start"
    /\ reqs' =
        IF UsernameInvalid(r.username)
        THEN Respond(s, Response(FALSE,
                "Username less than 5 characters or more than 12 characters", 200))
        ELSE IF PasswordInvalid(r.password)
        THEN Respond(s, Response(FALSE,
                "Password less than 8 characters or more than 12 characters", 200))
        ELSE IF query_items(players, r.username) # {}
        THEN Respond(s, Response(FALSE, "Username already exists", 200))
        ELSE [reqs EXCEPT ![s].pc = "create"]
    /\ UNCHANGED <<variant, players, issued>>

\* player_register from create_item on: function_app.py 92-106,
\* quiplash/function_app.py 421-447
Register_Create(s) ==
    LET r == reqs[s] IN
    /\ r.op = "register" /\ r.pc = "create"
    /\ \E ok \in BOOLEAN :
        IF ok
        THEN /\ players' = create_item(players, NewPlayer(players, r.username, r.password))
             /\ reqs' = Respond(s, Response(TRUE, "OK", 200))
        ELSE /\ players' = players
             /\ reqs' = Respond(s, Response(FALSE, "Internal error", 500))
    /\ UNCHANGED <<variant, issued>>

\* player_update up to `player = results[0]`: function_app.py 147-160,
\* quiplash/function_app.py 137-162
Update_Query(s) ==
    LET r == reqs[s] IN
    /\ r.op = "update" /\ r.pc = "start"
    /\ IF r.username = Null \/ r.score[1] = Null
       THEN reqs' = Respond(s, Response(FALSE, "Missing fields", 400))
       ELSE IF variant = "legacy"
       THEN \* line 155: query-query subtracts two strings, a TypeError
            reqs' = Respond(s, Unhandled)
       ELSE IF query_items(players, r.username) = {}
       THEN reqs' = Respond(s, Response(FALSE, "Username not found", 200))
       ELSE \E d \in query_items(players, r.username) :
                reqs' = [reqs EXCEPT ![s].pc = "replace", ![s].player = d]
    /\ UNCHANGED <<variant, players, issued>>

\* player_update from the increments on: function_app.py 161-170,
\* quiplash/function_app.py 163-179
Update_Replace(s) ==
    LET r == reqs[s] IN
    /\ r.op = "update" /\ r.pc = "replace"
    /\ \E ok \in BOOLEAN :
        IF ok
        THEN /\ players' = replace_item(players, r.player.id,
                                ReplaceBody(Stored(players, r.player.id), r.player, r.score))
             /\ reqs' = Respond(s, Response(TRUE, "OK", 200))
        ELSE /\ players' = players
             /\ reqs' = Respond(s, Response(FALSE, "Internal error", 500))
    /\ UNCHANGED <<variant, issued>>

\* ------------------------------------------- prompt_create/moderate/delete

\* prompt texts a body carries: none, one of 5 characters, one of 35, one of 121
ShortText == "Hello"
GoodText == "What would you never say to a goat?"
LongText == "What is the one thing that you would never, under any circumstances at all, say out loud to a goat standing in your room?"
CreateBodies ==
    {<<u, GoodText>> : u \in {Null, "alice", "bobby"}}
    \cup {<<"alice", t>> : t \in {ShortText, LongText}}

\* ids are numbered from 1 in the order uuid4 hands them out; in a request,
\* 0 stands for a prompt_id that is absent or empty and UnknownId for an id no
\* prompt ever had
NoId == 0
UnknownId == 99

\* the "approved" field of a body: absent, a JSON boolean, or a JSON string
ApprovedFields == {<<Null, "">>, <<"bool", "true">>, <<"bool", "false">>, <<"str", "false">>}

\* Python's bool(): a non-empty string is true
bool(a) == a = <<"bool", "true">> \/ (a[1] = "str" /\ a[2] # "")

ModerateBodies(ps) ==
    {<<d.id, d.username, a>> : d \in ps, a \in ApprovedFields \ {<<Null, "">>}}
    \cup {<<d.id, "bobby", <<"bool", "true">> >> : d \in ps}
    \cup {<<UnknownId, "alice", <<"bool", "true">> >>, <<NoId, "alice", <<Null, "">> >>}

DeleteBodies(ps) ==
    {<<d.id, u>> : d \in ps, u \in {"alice", "bobby"}}
    \cup {<<UnknownId, "alice">>, <<NoId, "alice">>}

NoPrompt == [id |-> 0, username |-> "", prompt_text |-> "", approved |-> FALSE]

IdlePReq == [op |-> "none", pc |-> "idle", prompt_id |-> NoId, username |-> "",
             prompt_text |-> "", approved |-> <<Null, "">>, item |-> NoPrompt,
             resp |-> NoResp]

\* function_app.py 199-204 / quiplash/function_app.py 216-221
PromptDoc(id, u, t) == [id |-> id, username |-> u, prompt_text |-> t, approved |-> FALSE]

\* read_item(item=prompt_id, partition_key=username): the documents found,
\* none meaning CosmosResourceNotFoundError
read_item(ps, id, pk) == {d \in ps : d.id = id /\ d.username = pk}

\* delete_item(item=prompt_id, partition_key=username)
delete_item(ps, id, pk) == ps \ read_item(ps, id, pk)

\* replace_item(prompt_item["id"], prompt_item) of the prompt container
replace_prompt(ps, body) == {IF d.id = body.id THEN body ELSE d : d \in ps}

ModeratedItem_approve(item, a) == [item EXCEPT !.approved = TRUE]

\* prompt_item["approved"] = bool(approved)
ModeratedItem(item, a) == [item EXCEPT !.approved = bool(a)]

\* what prompt_delete answers when delete_item raises something other than
\* not-found: function_app.py 272-274 / quiplash/function_app.py 346-352
DeleteFailed(v) ==
    IF v = "legacy" THEN Response(TRUE, "Deleted", 200)
    ELSE Response(FALSE, "Internal error during delete", 500)

\* what prompt_moderate answers when read_item raises something other than
\* not-found: uncaught in function_app.py 233-236, caught in
\* quiplash/function_app.py 281-288
ReadFailed(v) ==
    IF v = "legacy" THEN Unhandled
    ELSE Response(FALSE, "Internal error during read", 500)

\* function_app.py 243 / quiplash/function_app.py 298
ReplaceFailed(v) ==
    IF v = "legacy" THEN Response(FALSE, "Internal error", 500)
    ELSE Response(FALSE, "Internal error during update", 500)

\* the status of prompt_moderate's and prompt_delete's missing-field answer:
\* 400 in function_app.py, the default 200 in quiplash/function_app.py
MissingStatus(v) == IF v = "legacy" THEN 400 ELSE 200

PromptIdle ==
    /\ prompts = {} /\ preqs = [s \in Slots |-> IdlePReq] /\ pissued = 0 /\ uuids = 0

\* the prompt endpoints start against a player container that holds alice
PromptInit ==
    /\ variant \in {"legacy", "quiplash"}
    /\ players = {NewPlayer({}, "alice", "password1")}
    /\ reqs = [s \in Slots |-> IdleReq] /\ issued = 0
    /\ PromptIdle

BeginPromptCreate(s) ==
    /\ preqs[s].pc \in {"idle", "done"}
    /\ pissued < MaxRequests
    /\ \E b \in CreateBodies :
        preqs' = [preqs EXCEPT ![s] =
                    [IdlePReq EXCEPT !.op = "create", !.pc = "start",
                                     !.username = b[1], !.prompt_text = b[2]]]
    /\ pissued' = pissued + 1
    /\ UNCHANGED <<prompts, uuids>>

BeginPromptModerate(s) ==
    /\ preqs[s].pc \in {"idle", "done"}
    /\ pissued < MaxRequests
    /\ \E b \in ModerateBodies(prompts) :
        preqs' = [preqs EXCEPT ![s] =
                    [IdlePReq EXCEPT !.op = "moderate", !.pc = "start",
                                     !.prompt_id = b[1], !.username = b[2],
                                     !.approved = b[3]]]
    /\ pissued' = pissued + 1
    /\ UNCHANGED <<prompts, uuids>>

BeginPromptDelete(s) ==
    /\ preqs[s].pc \in {"idle", "done"}
    /\ pissued < MaxRequests
    /\ \E b \in DeleteBodies(prompts) :
        preqs' = [preqs EXCEPT ![s] =
                    [IdlePReq EXCEPT !.op = "delete", !.pc = "start",
                                     !.prompt_id = b[1], !.username = b[2]]]
    /\ pissued' = pissued + 1
    /\ UNCHANGED <<prompts, uuids>>

\* the invocation ends: its locals are gone, the slot keeps which endpoint
\* answered and what
PRespond(s, r) ==
    [preqs EXCEPT ![s] = [IdlePReq EXCEPT !.op = preqs[s].op, !.pc = "done",
                                          !.resp = r]]

\* prompt_create up to the document: function_app.py 185-204,
\* quiplash/function_app.py 190-221
PromptCreate_Query(s) ==
    LET r == preqs[s] IN
    /\ r.op = "create" /\ r.pc = "start"
    /\ IF r.username = Null \/ r.prompt_text = Null
       THEN /\ preqs' = PRespond(s, Response(FALSE, "Missing username or prompt_text", 400))
            /\ uuids' = uuids
       ELSE IF query_items(players, r.username) = {}
       THEN /\ preqs' = PRespond(s, Response(FALSE, "Username not found", 200))
            /\ uuids' = uuids
       ELSE /\ preqs' = [preqs EXCEPT ![s].pc = "create",
                               ![s].item = PromptDoc(uuids + 1, r.username, r.prompt_text)]
            /\ uuids' = uuids + 1
    /\ UNCHANGED <<prompts, pissued>>

\* function_app.py 206-211 / quiplash/function_app.py 223-242
PromptCreate_Create(s) ==
    LET r == preqs[s] IN
    /\ r.op = "create" /\ r.pc = "create"
    /\ \E ok \in BOOLEAN :
        IF ok
        THEN /\ prompts' = create_item(prompts, r.item)
             /\ preqs' = PRespond(s, Response(TRUE, "OK", 200))
        ELSE /\ prompts' = prompts
             /\ preqs' = PRespond(s, Response(FALSE, "Internal error", 500))
    /\ UNCHANGED <<pissued, uuids>>

\* prompt_moderate up to the read: function_app.py 226-236,
\* quiplash/function_app.py 254-288
PromptModerate_Read(s) ==
    LET r == preqs[s] IN
    /\ r.op = "moderate" /\ r.pc = "start"
    /\ IF r.prompt_id = NoId \/ r.username = Null \/ r.approved[1] = Null
       THEN preqs' = PRespond(s, Response(FALSE, "Missing prompt_id, username, or approved",
                                          MissingStatus(variant)))
       ELSE \E ok \in BOOLEAN :
            IF ~ok THEN preqs' = PRespond(s, ReadFailed(variant))
            ELSE IF read_item(prompts, r.prompt_id, r.username) = {}
            THEN preqs' = PRespond(s, Response(FALSE, "Prompt not found", 200))
            ELSE \E d \in read_item(prompts, r.prompt_id, r.username) :
                    preqs' = [preqs EXCEPT ![s].pc = "replace", ![s].item = d]
    /\ UNCHANGED <<prompts, pissued, uuids>>

\* function_app.py 238-247 / quiplash/function_app.py 290-307; the store
\* refuses to replace a document it no longer holds
PromptModerate_Replace(s) ==
    LET r == preqs[s] IN
    /\ r.op = "moderate" /\ r.pc = "replace"
    /\ \E ok \in BOOLEAN :
        IF ok /\ read_item(prompts, r.item.id, r.item.username) # {}
        THEN /\ prompts' = replace_prompt(prompts, ModeratedItem(r.item, r.approved))
             /\ preqs' = PRespond(s, Response(TRUE,
                            IF bool(r.approved) THEN "Prompt approved" ELSE "Prompt rejected",
                            200))
        ELSE /\ prompts' = prompts
             /\ preqs' = PRespond(s, ReplaceFailed(variant))
    /\ UNCHANGED <<pissued, uuids>>

\* prompt_delete: function_app.py 256-276, quiplash/function_app.py 319-360
PromptDelete(s) ==
    LET r == preqs[s] IN
    /\ r.op = "delete" /\ r.pc = "start"
    /\ IF r.prompt_id = NoId \/ r.username = Null
       THEN /\ prompts' = prompts
            /\ preqs' = PRespond(s, Response(FALSE, "Missing prompt_id or username",
                                             MissingStatus(variant)))
       ELSE \E ok \in BOOLEAN :
            IF ~ok
            THEN /\ prompts' = prompts
                 /\ preqs' = PRespond(s, DeleteFailed(variant))
            ELSE IF read_item(prompts, r.prompt_id, r.username) = {}
            THEN /\ prompts' = prompts
                 /\ preqs' = PRespond(s, Response(FALSE, "Prompt not found", 200))
            ELSE /\ prompts' = delete_item(prompts, r.prompt_id, r.username)
                 /\ preqs' = PRespond(s, Response(TRUE, "Deleted", 200))
    /\ UNCHANGED <<pissued, uuids>>

\* ---------------------------------------------------------- the welcome job

\* the players whose creation the change feed reports
WelcomePlayers == {"alice", "bobby"}

\* the canonical welcome sentence for a username
Welcome(u) == "Welcome to Quiplash, " \o u \o "!"

\* lines 114-122 run to the end, every individual request answered by r
RECURSIVE FallbackAll(_, _, _, _)
FallbackAll(tx, ms, r, txt) ==
    IF ms = <<>> THEN tx
    ELSE FallbackAll(FallbackAppend(tx, Head(ms), r, txt), Tail(ms), r, txt)

\* _translate_to_all(txt) when detection returned language l, the batched
\* request was answered by b and every individual request by r
translate_to_all(txt, l, b, r) ==
    LET tx == BatchAppend(<<[language |-> SourceLang(l), text |-> txt]>>,
                          Targets(SourceLang(l)), b, txt)
    IN  FallbackAll(tx, Missing(tx), r, txt)

\* the languages _translate_detect can return
DetectedLanguages == {translate_detect(r)[1] : r \in DetectResponses}

\* the batched responses the job's fan-out meets: a failure, or everything asked
WelcomeBatch(tg) ==
    {[kind |-> "timeout", entries |-> <<>>], [kind |-> "ok", entries |-> Asked(tg)]}

\* the idempotency guard: some stored prompt of this username has an English
\* entry whose text is the welcome sentence
WelcomeExists(ps, u) ==
    \E p \in ps : /\ p.username = u
                  /\ \E i \in 1..Len(p.texts) :
                        p.texts[i] = [language |-> "en", text |-> Welcome(u)]

\* the prompt the job persists: the fan-out's texts and no tags
WelcomePrompt(ps, u, tx) ==
    [id |-> Cardinality(ps) + 1, username |-> u, texts |-> tx, tags |-> <<>>]

WelcomeIdle ==
    /\ wpc = "idle" /\ wUser = "" /\ wTexts = <<>> /\ wprompts = {}
    /\ delivered = 0 /\ handled = [u \in WelcomePlayers |-> 0]

\* the feed delivers a player document, for the first time or again; a batch
\* is processed item by item, so one document is in work at a time
W_Deliver ==
    /\ wpc = "idle"
    /\ delivered < MaxDeliveries
    /\ \E u \in WelcomePlayers : wUser' = u
    /\ delivered' = delivered + 1
    /\ wpc' = "check"
    /\ UNCHANGED <<wTexts, wprompts, handled>>

\* the query for an existing welcome prompt; an error ends this item only
W_Check ==
    /\ wpc = "check"
    /\ \E ok \in BOOLEAN :
        IF ~ok THEN wpc' = "idle" /\ handled' = handled
        ELSE IF WelcomeExists(wprompts, wUser)
        THEN wpc' = "idle" /\ handled' = [handled EXCEPT ![wUser] = @ + 1]
        ELSE wpc' = "translate" /\ handled' = handled
    /\ UNCHANGED <<wUser, wTexts, wprompts, delivered>>

\* the translation fan-out for the welcome sentence
W_Translate ==
    /\ wpc = "translate"
    /\ \E l \in DetectedLanguages :
       \E b \in WelcomeBatch(Targets(SourceLang(l))) :
       \E r \in {"ok", "timeout"} :
            wTexts' = translate_to_all(Welcome(wUser), l, b, r)
    /\ wpc' = "persist"
    /\ UNCHANGED <<wUser, wprompts, delivered, handled>>

\* the prompt is written; an error ends this item only
W_Persist ==
    /\ wpc = "persist"
    /\ \E ok \in BOOLEAN :
        IF ok
        THEN /\ wprompts' = wprompts \cup {WelcomePrompt(wprompts, wUser, wTexts)}
             /\ handled' = [handled EXCEPT ![wUser] = @ + 1]
        ELSE UNCHANGED <<wprompts, handled>>
    /\ wpc' = "idle"
    /\ wTexts' = <<>>
    /\ UNCHANGED <<wUser, delivered>>

\* ------------------------------------------------------------ specifications

InitDetect == DetectInit /\ TranslateIdle /\ SafetyIdle /\ StoreIdle /\ PromptIdle /\ WelcomeIdle
DetectNext == Detect /\ UNCHANGED <<tvars, svars, pvars, qvars, wvars>>
SpecDetect == InitDetect /\ [][DetectNext]_vars

InitTranslate == TranslateInit /\ DetectIdle /\ SafetyIdle /\ StoreIdle /\ PromptIdle /\ WelcomeIdle
TranslateNext ==
    \/ TTA_Detect /\ UNCHANGED <<dvars, svars, pvars, qvars, wvars>>
    \/ TTA_Batch /\ UNCHANGED <<dvars, svars, pvars, qvars, wvars>>
    \/ TTA_Fallback /\ UNCHANGED <<dvars, svars, pvars, qvars, wvars>>
    \/ TTA_Return /\ UNCHANGED <<dvars, svars, pvars, qvars, wvars>>
SpecTranslateFair == InitTranslate /\ [][TranslateNext]_vars /\ WF_vars(TranslateNext)
SpecTranslate == InitTranslate /\ [][TranslateNext]_vars

InitSafety == SafetyInit /\ DetectIdle /\ TranslateIdle /\ StoreIdle /\ PromptIdle /\ WelcomeIdle
SafetyNext ==
    \/ CS_Request /\ UNCHANGED <<dvars, tvars, pvars, qvars, wvars>>
    \/ CS_Response /\ UNCHANGED <<dvars, tvars, pvars, qvars, wvars>>
SpecSafety == InitSafety /\ [][SafetyNext]_vars

InitStore == StoreInit /\ DetectIdle /\ TranslateIdle /\ SafetyIdle /\ PromptIdle /\ WelcomeIdle
StoreNext ==
    \E s \in Slots :
        \/ BeginRegister(s) /\ UNCHANGED <<dvars, tvars, svars, qvars, wvars>>
        \/ BeginUpdate(s) /\ UNCHANGED <<dvars, tvars, svars, qvars, wvars>>
        \/ Register_Query(s) /\ UNCHANGED <<dvars, tvars, svars, qvars, wvars>>
        \/ Register_Create(s) /\ UNCHANGED <<dvars, tvars, svars, qvars, wvars>>
        \/ Update_Query(s) /\ UNCHANGED <<dvars, tvars, svars, qvars, wvars>>
        \/ Update_Replace(s) /\ UNCHANGED <<dvars, tvars, svars, qvars, wvars>>
Spec == InitStore /\ [][StoreNext]_vars

InitPrompt == PromptInit /\ DetectIdle /\ TranslateIdle /\ SafetyIdle /\ WelcomeIdle
PromptNext ==
    \E s \in Slots :
        \/ BeginPromptCreate(s) /\ UNCHANGED <<dvars, tvars, svars, pvars, wvars>>
        \/ BeginPromptModerate(s) /\ UNCHANGED <<dvars, tvars, svars, pvars, wvars>>
        \/ BeginPromptDelete(s) /\ UNCHANGED <<dvars, tvars, svars, pvars, wvars>>
        \/ PromptCreate_Query(s) /\ UNCHANGED <<dvars, tvars, svars, pvars, wvars>>
        \/ PromptCreate_Create(s) /\ UNCHANGED <<dvars, tvars, svars, pvars, wvars>>
        \/ PromptModerate_Read(s) /\ UNCHANGED <<dvars, tvars, svars, pvars, wvars>>
        \/ PromptModerate_Replace(s) /\ UNCHANGED <<dvars, tvars, svars, pvars, wvars>>
        \/ PromptDelete(s) /\ UNCHANGED <<dvars, tvars, svars, pvars, wvars>>
SpecPrompt == InitPrompt /\ [][PromptNext]_vars

InitWelcome == WelcomeIdle /\ DetectIdle /\ TranslateIdle /\ SafetyIdle /\ StoreIdle /\ PromptIdle
WelcomeNext ==
    \/ W_Deliver /\ UNCHANGED <<dvars, tvars, svars, pvars, qvars>>
    \/ W_Check /\ UNCHANGED <<dvars, tvars, svars, pvars, qvars>>
    \/ W_Translate /\ UNCHANGED <<dvars, tvars, svars, pvars, qvars>>
    \/ W_Persist /\ UNCHANGED <<dvars, tvars, svars, pvars, qvars>>
SpecWelcome == InitWelcome /\ [][WelcomeNext]_vars

\* ============================================================ properties

\* ---- _translate_to_all

BatchCall == CHOOSE c \in Range(calls) : c.kind = "batch"
SingleCalls == SelectSeq(calls, LAMBDA c : c.kind = "single")
SourceEntries == {i \in 1..Len(texts) : texts[i].language = lang}

\* every request of the run was answered, and answered with what was asked
AllCallsSucceeded ==
    /\ \A i \in 1..Len(calls) : calls[i].outcome = "ok"
    /\ batchResp = [kind |-> "ok", entries |-> Asked(targets)]

\* C1: when every translation-service call succeeds and returns what was
\* asked, the language codes of the returned texts are exactly the configured
\* codes, whatever language was detected.
C1_CodesExactlyConfigured ==
    (tpc = "done" /\ AllCallsSucceeded) => Have(texts) = Range(SUPPORTED_CODES)

\* C2: the returned texts never hold two entries with the same language code,
\* whatever the translation service answers.
C2_NoDuplicateCodes ==
    tpc = "done" =>
        \A i, j \in 1..Len(texts) : texts[i].language = texts[j].language => i = j

AfterFailedBatch == SelectSeq(SUPPORTED_CODES, LAMBDA c : c # lang)

DetectFailed(r) == r.kind # "ok" \/ r.score[1] \in {"str", Null}

ReportedLanguage(r) == IF r.det = "object" /\ r.language # Absent THEN r.language ELSE ""
ReportedScore(r) == IF r.det = "object" /\ r.score[1] # Absent THEN r.score[2] ELSE 0

\* C5: _translate_detect returns and never raises; it returns ("", 0.0) on a
\* transport failure, an error status or a malformed response, and the
\* language and score the service reported otherwise ("" and 0.0 for what it
\* did not report).
C5_DetectFailSoft ==
    dpc = "done" =>
        /\ dOut[1] # RaisedMark
        /\ DetectFailed(dResp) => dOut = <<"", 0>>
        /\ ~DetectFailed(dResp) => dOut = <<ReportedLanguage(dResp), ReportedScore(dResp)>>

\* C5 witness: a 200 response whose score is no number, answered with ("", 0.0)
\* although it names a language.
C5_Witness ==
    /\ dpc = "done" /\ dResp.kind = "ok" /\ dResp.language = "cy"
    /\ dResp.score[1] = "str" /\ dOut = <<"", 0>>

\* ---- _content_safety_average_english

NoEnglish(tx) == \A i \in 1..Len(tx) : tx[i].language # "en"

\* C6: for texts without an 'en' entry the helper returns 0.0 and sends no
\* request to the moderation service.
C6_NoEnglishNoRequest ==
    (spc = "done" /\ NoEnglish(sTexts)) => (sOut = Returned(<<0, 1>>) /\ sReqs = <<>>)

\* the response is a usable analysis: an object whose categoriesAnalysis, if
\* any, is a list of objects
Successful(r) ==
    /\ r.kind = "ok" /\ r.body = "object" /\ r.analysis # Null
    /\ \A i \in 1..Len(r.items) : r.items[i].category # BadEntry

\* the severity the response reports for category c, 0 when it reports none
SeverityOf(c, items) ==
    IF \E i \in 1..Len(items) : items[i].category = c
    THEN LET first == CHOOSE i \in 1..Len(items) :
                        /\ items[i].category = c
                        /\ \A j \in 1..(i - 1) : items[j].category # c
         IN  IF items[first].severity[1] = Absent THEN 0 ELSE items[first].severity[2]
    ELSE 0

\* C7: for a successful moderation response the helper returns
\* (Hate + SelfHarm + Sexual + Violence) / 4, a category the response lacks
\* counting 0 and other categories not at all; the divisor is 4 whatever the
\* number of categories returned.
C7_AverageOverFour ==
    (spc = "done" /\ Successful(sResp)) =>
        sOut = Returned(Frac(SeverityOf("Hate", sResp.items) + SeverityOf("SelfHarm", sResp.items)
                             + SeverityOf("Sexual", sResp.items)
                             + SeverityOf("Violence", sResp.items), 4))

\* C7 witness: Hate 1 and Violence 3 alone, answered 1.0.
C7_Witness ==
    /\ spc = "done"
    /\ sResp.items = <<[category |-> "Hate", severity |-> <<"num", 1>>],
                       [category |-> "Violence", severity |-> <<"num", 3>>]>>
    /\ sOut = Returned(<<1, 1>>)

\* the call failed or its response cannot be used
SafetyFailed(r) == ~Successful(r)

\* C8: whenever the moderation call fails (timeout, transport error, error
\* status, unusable response) the helper returns 0.0 and raises nothing.
C8_SafetyFailSoft ==
    (spc = "done" /\ SafetyFailed(sResp)) => sOut = Returned(<<0, 1>>)

\* ---- the player container

\* C9: no two player documents carry the same username.
C9_UsernameUnique ==
    \A d1, d2 \in players : d1.username = d2.username => d1 = d2

AnsweredOK(s) ==
    reqs[s].op = "update" /\ reqs[s].pc = "done" /\ reqs[s].resp = Response(TRUE, "OK", 200)

\* slots a and b hold two updates of one player, both answered OK, that read
\* the same version of the document, and theirs are the only writes since
RacedUpdates(a, b) ==
    /\ a # b /\ AnsweredOK(a) /\ AnsweredOK(b)
    /\ reqs[a].player = reqs[b].player
    /\ Stored(players, reqs[a].player.id).version = reqs[a].player.version + 2

\* C10: two updates of one player that read the same document and are both
\* answered OK leave games_played one above what they read, not two, and
\* total_score with the score of only one of them: an update is lost.
C10_LostUpdate ==
    \A a, b \in Slots :
        RacedUpdates(a, b) =>
            LET d == Stored(players, reqs[a].player.id) IN
            /\ d.games_played = reqs[a].player.games_played + 1
            /\ d.total_score \in {reqs[a].player.total_score + reqs[a].score[2],
                                   reqs[a].player.total_score + reqs[b].score[2]}

\* C10 witness: the lost update, with two different scores.
C10_Witness ==
    \E a, b \in Slots :
        /\ RacedUpdates(a, b)
        /\ reqs[a].score # reqs[b].score
        /\ Stored(players, reqs[a].player.id).games_played = reqs[a].player.games_played + 1

\* the step answers slot s's update request
UpdateAnswered(s) ==
    /\ reqs[s].op = "update" /\ reqs[s].pc # "done" /\ reqs'[s].pc = "done"
    /\ reqs[s].username # Null /\ reqs[s].score[1] # Null

\* C11: an update carrying username and score, unless the store refuses the
\* write, is answered OK when the player exists, and then the stored player is
\* the one read with games_played raised by the games delta the caller
\* supplied and total_score by the score, id, username and password as they
\* were; when no player has the username it is answered "Username not found"
\* and the player container is unchanged.
C11_UpdateContract ==
    [][\A s \in Slots :
        (UpdateAnswered(s) /\ reqs'[s].resp.msg # "Internal error") =>
            IF query_items(players, reqs[s].username) = {}
            THEN /\ reqs'[s].resp = Response(FALSE, "Username not found", 200)
                 /\ players' = players
            ELSE /\ reqs'[s].resp = Response(TRUE, "OK", 200)
                 /\ LET old == reqs[s].player
                         new == Stored(players', old.id)
                     IN  /\ reqs[s].games[1] # Null =>
                                new.games_played = old.games_played + reqs[s].games[2]
                         /\ new.total_score = old.total_score + reqs[s].score[2]
                         /\ new.id = old.id /\ new.username = old.username
                         /\ new.password = old.password
      ]_vars

\* the step creates a player document for slot s's register request
Registers(s) ==
    /\ reqs[s].op = "register" /\ players' # players /\ reqs'[s] # reqs[s]

\* C12: a player document is created only by a register request whose
\* username has 5 to 12 characters and whose password has 8 to 12, and only
\* while no player has that username; a created player starts with
\* games_played 0 and total_score 0; a request is rejected for its username
\* first, then for its password, then for the username being taken, each with
\* its own message and result false, and a rejection leaves the container as
\* it was.
C12_RegisterContract ==
    [][\A s \in Slots :
        LET r == reqs[s] IN
        /\ Registers(s) =>
            /\ Len(r.username) \in 5..12 /\ Len(r.password) \in 8..12
            /\ query_items(players, r.username) = {}
            /\ \E d \in players' :
                  /\ players' = players \cup {d} /\ d \notin players
                  /\ d.username = r.username /\ d.password = r.password
                  /\ d.games_played = 0 /\ d.total_score = 0
        /\ (r.op = "register" /\ r.pc = "start" /\ reqs'[s].pc = "done") =>
            /\ players' = players /\ reqs'[s].resp.result = FALSE
            /\ reqs'[s].resp.msg =
                  (IF r.username = Null \/ Len(r.username) \notin 5..12
                   THEN "Username less than 5 characters or more than 12 characters"
                   ELSE IF r.password = Null \/ Len(r.password) \notin 8..12
                   THEN "Password less than 8 characters or more than 12 characters"
                   ELSE "Username already exists")
      ]_vars

\* the codes of a sequence of texts entries
Codes(tx) == [i \in 1..Len(tx) |-> tx[i].language]

\* the target codes the batched response lists, in its order, as far as the
\* response could be read
BatchListed ==
    IF batchResp.kind # "ok" THEN <<>>
    ELSE SelectSeq(Reached(batchResp.entries), LAMBDA c : c \in Range(targets))

\* the codes whose individual request was answered with a translation
FallbackOK == {c \in Range(SUPPORTED_CODES) :
                 \E i \in 1..Len(calls) :
                    calls[i] = Call("single", <<c>>, "ok")}

\* position of a code in the configured list
Pos(c) == CHOOSE i \in 1..Len(SUPPORTED_CODES) : SUPPORTED_CODES[i] = c

\* C16: the returned texts are the source entry, then the batch-translated
\* entries in the order the batched response lists them, then the
\* fallback-translated entries in the order of the configured list; nothing
\* precedes the source entry.
C16_ResultOrder ==
    tpc = "done" =>
        LET k == 1 + Len(BatchListed) IN
        /\ Len(texts) >= k
        /\ texts[1] = [language |-> lang, text |-> text]
        /\ Codes(SubSeq(texts, 2, k)) = BatchListed
        /\ Codes(SubSeq(texts, k + 1, Len(texts)))
              = SelectSeq(SUPPORTED_CODES, LAMBDA c : c \in FallbackOK)

\* a run whose batched response listed two targets against the configured
\* order and left at least two codes to the fallback
C16_Witness ==
    /\ tpc = "done"
    /\ Len(BatchListed) = 2 /\ Pos(BatchListed[1]) > Pos(BatchListed[2])
    /\ Cardinality(FallbackOK) >= 2
    /\ \E i \in 1..Len(calls) : calls[i].kind = "single" /\ calls[i].outcome = "fail"

\* the configured codes the texts lacked when the batch step was over
MissingAfterBatch ==
    SelectSeq(SUPPORTED_CODES, LAMBDA c : c # lang /\ c \notin Range(BatchListed))

\* the requests of a finished run: one detection, at most one batched
\* request, then one individual request for each code missing after the
\* batch, in the configured order, whatever their outcomes
CallsOfRun ==
    /\ calls # <<>> /\ calls[1].kind = "detect"
    /\ Cardinality({i \in 1..Len(calls) : calls[i].kind = "detect"}) = 1
    /\ Cardinality({i \in 1..Len(calls) : calls[i].kind = "batch"}) <= 1
    /\ \A i \in 1..Len(calls) : calls[i].kind = "batch" => i = 2
    /\ [i \in 1..Len(SingleCalls) |-> SingleCalls[i].to] =
          [i \in 1..Len(MissingAfterBatch) |-> <<MissingAfterBatch[i]>>]
    /\ Len(SingleCalls) <= Len(SUPPORTED_CODES)
    /\ Range(targets) \subseteq Range(BatchListed) => SingleCalls = <<>>

PromptAnswered(s, op) ==
    preqs[s].op = op /\ preqs[s].pc # "done" /\ preqs'[s].pc = "done"

\* the author of slot s's request is a player and its text has 20 to 120
\* characters
ValidPrompt(s) ==
    /\ preqs[s].username # Null /\ query_items(players, preqs[s].username) # {}
    /\ preqs[s].prompt_text # Null /\ Len(preqs[s].prompt_text) \in 20..120

\* C13: prompt creation writes a document only for a request whose author is
\* an existing player and whose text has 20 to 120 characters (the detection
\* confidence, which no prompt_create under src/ asks for, is left out); any
\* other request is answered result false with the prompt container unchanged,
\* and a successful creation adds exactly one document.
C13_CreateGuard ==
    [][\A s \in Slots :
        PromptAnswered(s, "create") =>
            IF preqs'[s].resp.result
            THEN /\ ValidPrompt(s)
                 /\ \E d \in prompts' : d \notin prompts /\ prompts' = prompts \cup {d}
            ELSE prompts' = prompts
      ]_vars

\* C14: every prompt is created with approved false; a moderation carrying a
\* boolean that is answered result true has set the approved field of the
\* prompt with that id and username to that boolean and changed no other field
\* of it and no other prompt; a moderation that is answered result false
\* changes nothing, and one whose prompt_id and username name no stored prompt
\* is answered "Prompt not found" unless the read itself failed.
C14_ModerationFrame ==
    [][\A s \in Slots :
        LET r == preqs[s]  a == preqs'[s].resp IN
        /\ PromptAnswered(s, "create") =>
              \A d \in prompts' \ prompts : d.approved = FALSE
        /\ (PromptAnswered(s, "moderate") /\ r.approved[1] = "bool") =>
              IF a.result
              THEN \E d \in prompts :
                     /\ d.id = r.prompt_id /\ d.username = r.username
                     /\ prompts' = (prompts \ {d})
                                    \cup {[d EXCEPT !.approved = (r.approved[2] = "true")]}
                     /\ a.msg = (IF r.approved[2] = "true" THEN "Prompt approved"
                                 ELSE "Prompt rejected")
              ELSE /\ prompts' = prompts
                   /\ (/\ r.pc = "start" /\ r.prompt_id # NoId
                       /\ read_item(prompts, r.prompt_id, r.username) = {}
                       /\ a # ReadFailed(variant))
                      => a = Response(FALSE, "Prompt not found", 200)
      ]_vars

\* a moderation was answered "Prompt approved"; the container holds an
\* approved prompt and another one, of the same text, still not approved
C14_Witness ==
    /\ \E s \in Slots : preqs[s].op = "moderate" /\ preqs[s].pc = "done"
                        /\ preqs[s].resp.msg = "Prompt approved"
    /\ \E d, e \in prompts : d.approved /\ ~e.approved /\ d.id # e.id
                             /\ d.prompt_text = e.prompt_text

\* C18: when prompt_delete answers result true, "Deleted", no prompt with the
\* id and username of the request is stored afterwards and every other prompt
\* is as it was; when it answers result false the container is unchanged.
C18_DeleteContract ==
    [][\A s \in Slots :
        PromptAnswered(s, "delete") =>
            IF preqs'[s].resp.result
            THEN /\ preqs'[s].resp.msg = "Deleted"
                 /\ read_item(prompts', preqs[s].prompt_id, preqs[s].username) = {}
                 /\ prompts' = delete_item(prompts, preqs[s].prompt_id, preqs[s].username)
            ELSE prompts' = prompts
      ]_vars

\* the welcome prompts stored for a username
WelcomePromptsOf(u) == {p \in wprompts : p.username = u}

\* C15: once the job has processed a player's creation event, once or several
\* times, the container holds exactly one welcome prompt for that username.
C15_WelcomeOnce ==
    \A u \in WelcomePlayers :
        (wpc = "idle" /\ handled[u] >= 1) => Cardinality(WelcomePromptsOf(u)) = 1

====
